---- MODULE Spec2Model ----
(***************************************************************************)
(* A model of src/src/DeviceScreen.ts: the DeviceScreen session (WebSocket *)
(* channel, StreamInfo, VideoConverter decoder, drag counter) and the      *)
(* pointer-to-device coordinate mapping of buildMotionEvent.               *)
(*                                                                         *)
(* JavaScript numbers are modelled as exact rationals [n, d].  For the     *)
(* sizes the specifications draw (1..MaxDim+1 and the 400x300 / 1920x1080  *)
(* example) Math.round and Math.ceil applied to the double results agree   *)
(* with the exact values, so the exact arithmetic is what the code         *)
(* computes there.  For larger sizes double rounding can make              *)
(* Math.ceil(clientWidth / ratio) one larger than the exact ceiling, e.g.  *)
(* stream 7x5 and clientWidth 21 give 16, not 15.                          *)
(*                                                                         *)
(* An optional value (T | undefined, T | null) is a sequence of length at  *)
(* most one: <<>> when absent, <<v>> when present.                         *)
(***************************************************************************)
EXTENDS Integers, Sequences, FiniteSets, TLC

VARIABLES
    readyState,     \* this.ws.readyState
    streamInfo,     \* this.streamInfo
    converter,      \* this.converter: id of the current decoder, 0 if undefined
    decoders,       \* every VideoConverter constructed so far: id -> [playing]
    errorListener,  \* this.errorListener: listener id, 0 if undefined
    down,           \* the drag counter of init()
    last,           \* the callback or method that ran last, with its argument
    calls,          \* the calls it made on its collaborators, in order
    thrown,         \* whether it ended by an uncaught exception
    jsonParsed,     \* whether it passed its argument to JSON.parse
    wirePressed,    \* history: the last DOWN or UP motion event sent was a DOWN
    stopped,        \* history: stop() has been called
    geomIn,         \* input of the buildMotionEvent harness
    geomOut         \* result of the buildMotionEvent harness

vars == <<readyState, streamInfo, converter, decoders, errorListener, down,
          last, calls, thrown, jsonParsed, wirePressed, stopped, geomIn, geomOut>>

sessionVars == <<readyState, streamInfo, converter, decoders, errorListener, down,
                 last, calls, thrown, jsonParsed, wirePressed, stopped>>

-----------------------------------------------------------------------------
(* Bounds *)

MaxDim == 4

MaxDown == 2

MaxDecoders == 2

-----------------------------------------------------------------------------
(* Exact rational arithmetic standing for JavaScript numbers *)

Abs(i) == IF i < 0 THEN -i ELSE i

RECURSIVE GCD(_, _)
GCD(a, b) == IF b = 0 THEN a ELSE GCD(b, a % b)

Rat(n, d) ==
    LET g == GCD(Abs(n), Abs(d))
        s == IF d < 0 THEN -1 ELSE 1
    IN  [n |-> (s * n) \div g, d |-> (s * d) \div g]

Num(i) == [n |-> i, d |-> 1]

RSub(a, b) == Rat(a.n * b.d - b.n * a.d, a.d * b.d)

RAdd(a, b) == Rat(a.n * b.d + b.n * a.d, a.d * b.d)

RMul(a, b) == Rat(a.n * b.n, a.d * b.d)

RDiv(a, b) == Rat(a.n * b.d, a.d * b.n)

RLt(a, b) == a.n * b.d < b.n * a.d

RLe(a, b) == a.n * b.d <= b.n * a.d

Math_round(a) == (2 * a.n + a.d) \div (2 * a.d)

Math_ceil(a) == -((-a.n) \div a.d)

-----------------------------------------------------------------------------
(* Values of the modules DeviceScreen.ts imports *)

MotionEvent_ACTION_DOWN == "ACTION_DOWN"

MotionEvent_ACTION_MOVE == "ACTION_MOVE"

MotionEvent_ACTION_UP == "ACTION_UP"

MotionEvent_BUTTON_TERTIARY == 4

\* new Point(x, y)
Point(x, y) == [x |-> x, y |-> y]

\* new Size(width, height)
Size(w, h) == [width |-> w, height |-> h]

\* new Position(point, size)
Position(point, size) == [point |-> point, size |-> size]

\* new MotionControlEvent(action, buttons, position)
MotionControlEvent(action, buttons, position) ==
    [action |-> action, buttons |-> buttons, position |-> position]

\* StreamInfo.equals: equality by value
StreamInfoEquals(a, b) == a = b

-----------------------------------------------------------------------------
(* Constants of DeviceScreen.ts *)

MESSAGE_TYPE_TEXT == "text"

MESSAGE_TYPE_STREAM_INFO == "stream_info"

DEFAULT_FPF == 1

eps == 100000

\* The raw button with no entry maps to undefined: <<>>.
BUTTONS_MAP(button) ==
    CASE button = 0 -> <<17>>
      [] button = 1 -> <<MotionEvent_BUTTON_TERTIARY>>
      [] button = 2 -> <<26>>
      [] OTHER -> <<>>

EVENT_ACTION_MAP(type) ==
    CASE type = "mousedown" -> <<MotionEvent_ACTION_DOWN>>
      [] type = "mousemove" -> <<MotionEvent_ACTION_MOVE>>
      [] type = "mouseup" -> <<MotionEvent_ACTION_UP>>
      [] OTHER -> <<>>

-----------------------------------------------------------------------------
(* buildMotionEvent *)

\* A MouseEvent e: [type, button, target, clientX, clientY], where target is
\* the element [el, offsetLeft, offsetTop, clientWidth, clientHeight].

\* Mutant: the pointer below the image is not rejected (line 64 without its
\* second test).
BuildLetterboxTopBottom_NoLowerEdge(action, e, width, height, touchX, touchY, ratio) ==
    LET clientWidth == e.target.clientWidth
        clientHeight == e.target.clientHeight
        realHeight == Math_ceil(RDiv(Num(clientWidth), ratio))
        top == RDiv(RSub(Num(clientHeight), Num(realHeight)), Num(2))
    IN  IF RLt(touchY, top)
        THEN <<>>
        ELSE LET x == RDiv(RMul(touchX, Num(width)), Num(clientWidth))
                 y == RDiv(RMul(RSub(touchY, top), Num(height)), Num(realHeight))
             IN  <<MotionControlEvent(action, BUTTONS_MAP(e.button),
                       Position(Point(x, y), Size(width, height)))>>

\* Mutant: the top padding is not removed from the pointer (line 67 missing).
BuildLetterboxTopBottom_NoShift(action, e, width, height, touchX, touchY, ratio) ==
    LET clientWidth == e.target.clientWidth
        clientHeight == e.target.clientHeight
        realHeight == Math_ceil(RDiv(Num(clientWidth), ratio))
        top == RDiv(RSub(Num(clientHeight), Num(realHeight)), Num(2))
    IN  IF RLt(touchY, top) \/ RLt(RAdd(top, Num(realHeight)), touchY)
        THEN <<>>
        ELSE LET x == RDiv(RMul(touchX, Num(width)), Num(clientWidth))
                 y == RDiv(RMul(touchY, Num(height)), Num(realHeight))
             IN  <<MotionControlEvent(action, BUTTONS_MAP(e.button),
                       Position(Point(x, y), Size(width, height)))>>

\* lines 61-68: the stream is relatively wider than the viewport
BuildLetterboxTopBottom(action, e, width, height, touchX, touchY, ratio) ==
    LET clientWidth == e.target.clientWidth
        clientHeight == e.target.clientHeight
        realHeight == Math_ceil(RDiv(Num(clientWidth), ratio))
        top == RDiv(RSub(Num(clientHeight), Num(realHeight)), Num(2))
    IN  IF RLt(touchY, top) \/ RLt(RAdd(top, Num(realHeight)), touchY)
        THEN <<>>
        ELSE LET x == RDiv(RMul(touchX, Num(width)), Num(clientWidth))
                 y == RDiv(RMul(RSub(touchY, top), Num(height)), Num(realHeight))
             IN  <<MotionControlEvent(action, BUTTONS_MAP(e.button),
                       Position(Point(x, y), Size(width, height)))>>

\* Mutant: the scale keeps the full viewport width (line 76 missing).
BuildLetterboxLeftRight_FullWidth(action, e, width, height, touchX, touchY, ratio) ==
    LET clientWidth == e.target.clientWidth
        clientHeight == e.target.clientHeight
        realWidth == Math_ceil(RMul(Num(clientHeight), ratio))
        left == RDiv(RSub(Num(clientWidth), Num(realWidth)), Num(2))
    IN  IF RLt(touchX, left) \/ RLt(RAdd(left, Num(realWidth)), touchX)
        THEN <<>>
        ELSE LET x == RDiv(RMul(RSub(touchX, left), Num(width)), Num(clientWidth))
                 y == RDiv(RMul(touchY, Num(height)), Num(clientHeight))
             IN  <<MotionControlEvent(action, BUTTONS_MAP(e.button),
                       Position(Point(x, y), Size(width, height)))>>

\* lines 69-76: the stream is relatively narrower than the viewport
BuildLetterboxLeftRight(action, e, width, height, touchX, touchY, ratio) ==
    LET clientWidth == e.target.clientWidth
        clientHeight == e.target.clientHeight
        realWidth == Math_ceil(RMul(Num(clientHeight), ratio))
        left == RDiv(RSub(Num(clientWidth), Num(realWidth)), Num(2))
    IN  IF RLt(touchX, left) \/ RLt(RAdd(left, Num(realWidth)), touchX)
        THEN <<>>
        ELSE LET x == RDiv(RMul(RSub(touchX, left), Num(width)), Num(realWidth))
                 y == RDiv(RMul(touchY, Num(height)), Num(clientHeight))
             IN  <<MotionControlEvent(action, BUTTONS_MAP(e.button),
                       Position(Point(x, y), Size(width, height)))>>

\* lines 78-81 with neither branch taken
BuildNoLetterbox(action, e, width, height, touchX, touchY) ==
    LET x == RDiv(RMul(touchX, Num(width)), Num(e.target.clientWidth))
        y == RDiv(RMul(touchY, Num(height)), Num(e.target.clientHeight))
    IN  <<MotionControlEvent(action, BUTTONS_MAP(e.button),
              Position(Point(x, y), Size(width, height)))>>

\* DeviceScreen.buildMotionEvent(e, streamInfo): <<event>>, or <<>> for null
BuildMotionEvent(e, info) ==
    LET action == EVENT_ACTION_MAP(e.type)
    IN  IF action = <<>> \/ info = <<>>
        THEN <<>>
        ELSE LET width == info[1].width
                 height == info[1].height
                 touchX == Num(e.clientX - e.target.offsetLeft)
                 touchY == Num(e.clientY - e.target.offsetTop)
                 ratio == RDiv(Num(width), Num(height))
                 shouldBe == Math_round(RMul(Num(eps), ratio))
                 haveNow == Math_round(RDiv(RMul(Num(eps), Num(e.target.clientWidth)),
                                            Num(e.target.clientHeight)))
             IN  IF shouldBe > haveNow
                 THEN BuildLetterboxTopBottom(action[1], e, width, height,
                                              touchX, touchY, ratio)
                 ELSE IF shouldBe < haveNow
                 THEN BuildLetterboxLeftRight(action[1], e, width, height,
                                              touchX, touchY, ratio)
                 ELSE BuildNoLetterbox(action[1], e, width, height, touchX, touchY)

-----------------------------------------------------------------------------
(* The collaborators: WebSocket, VideoConverter, console, listener *)

\* One call on a collaborator: the object, the decoder id (0 when the object
\* is no decoder), the method and its arguments.
Call(obj, id, op, arg) == [obj |-> obj, id |-> id, op |-> op, arg |-> arg]

\* new VideoConverter(tag, fps, fpf) followed by nothing: not playing.
RECURSIVE DecodersAfter(_, _)
DecodersAfter(ds, cs) ==
    IF cs = <<>> THEN ds
    ELSE LET c == Head(cs)
             next ==
               IF c.obj # "converter" THEN ds
               ELSE IF c.op = "new" THEN Append(ds, [playing |-> FALSE])
               ELSE IF c.op = "play" THEN [ds EXCEPT ![c.id].playing = TRUE]
               ELSE IF c.op = "pause" THEN [ds EXCEPT ![c.id].playing = FALSE]
               ELSE ds
         IN  DecodersAfter(next, Tail(cs))

\* ws.close() moves an OPEN or CONNECTING socket to CLOSING.
RECURSIVE ReadyStateAfter(_, _)
ReadyStateAfter(rs, cs) ==
    IF cs = <<>> THEN rs
    ELSE LET c == Head(cs)
             next == IF c.obj = "ws" /\ c.op = "close" /\ rs \in {"CONNECTING", "OPEN"}
                     THEN "CLOSING" ELSE rs
         IN  ReadyStateAfter(next, Tail(cs))

\* ws.send(data) throws InvalidStateError while the socket is CONNECTING.
SendThrows(rs, cs) ==
    \E i \in 1..Len(cs) : cs[i].obj = "ws" /\ cs[i].op = "send" /\ rs = "CONNECTING"

\* event.toBuffer(): the fields of the message in wire order
ToBuffer(event) == <<"buffer", event>>

-----------------------------------------------------------------------------
(* Inputs of the session *)

\* new StreamInfo(data)
StreamInfo(data) ==
    [width |-> data.width, height |-> data.height, frameRate |-> data.frameRate]

SessionInfos ==
    { [width |-> 2, height |-> 1, frameRate |-> 30],
      [width |-> 1, height |-> 2, frameRate |-> 30],
      [width |-> 2, height |-> 1, frameRate |-> 60] }

\* e.data of a MessageEvent: an ArrayBuffer, or a string given by what
\* JSON.parse makes of it: an exception (parses = FALSE), null (value = <<>>)
\* or an object (value = <<object>>).
JsonObject(type, info) ==
    [type |-> type, width |-> info.width, height |-> info.height,
     frameRate |-> info.frameRate]

NoFields == [width |-> 0, height |-> 0, frameRate |-> 0]

Messages ==
    { [isArrayBuffer |-> TRUE, parses |-> FALSE, value |-> <<>>],
      [isArrayBuffer |-> FALSE, parses |-> FALSE, value |-> <<>>],
      [isArrayBuffer |-> FALSE, parses |-> TRUE, value |-> <<>>],
      [isArrayBuffer |-> FALSE, parses |-> TRUE,
       value |-> <<JsonObject(MESSAGE_TYPE_TEXT, NoFields)>>],
      [isArrayBuffer |-> FALSE, parses |-> TRUE,
       value |-> <<JsonObject("other", NoFields)>>] }
    \cup { [isArrayBuffer |-> FALSE, parses |-> TRUE,
            value |-> <<JsonObject(MESSAGE_TYPE_STREAM_INFO, i)>>] : i \in SessionInfos }

\* The video element this.tag and some other element of the document.
TagElement ==
    [el |-> "tag", offsetLeft |-> 1, offsetTop |-> 1,
     clientWidth |-> 4, clientHeight |-> 4]

OtherElement ==
    [el |-> "other", offsetLeft |-> 0, offsetTop |-> 0,
     clientWidth |-> 4, clientHeight |-> 4]

\* Pointer positions over the tag: the centre, the middle of the top edge
\* and the middle of the left edge.
TagPoints == { <<3, 3>>, <<3, 1>>, <<1, 3>> }

Buttons == 0..3

MouseEvents(type) ==
    { [type |-> type, button |-> b, target |-> TagElement,
       clientX |-> p[1], clientY |-> p[2]] : b \in Buttons, p \in TagPoints }
    \cup { [type |-> type, button |-> 0, target |-> OtherElement,
            clientX |-> 0, clientY |-> 0] }

ControlEvents == { "command" }

Listeners == { 1 }

-----------------------------------------------------------------------------
(* The session: callbacks and methods of DeviceScreen *)

\* constructor and init(): the socket is connecting, nothing else is set
Init ==
    /\ readyState = "CONNECTING"
    /\ streamInfo = <<>>
    /\ converter = 0
    /\ decoders = <<>>
    /\ errorListener = 0
    /\ down = 0
    /\ last = [op |-> "constructor", arg |-> <<>>]
    /\ calls = <<>>
    /\ thrown = FALSE
    /\ jsonParsed = FALSE
    /\ wirePressed = FALSE
    /\ stopped = FALSE
    /\ geomIn = <<>>
    /\ geomOut = [done |-> FALSE, result |-> <<>>]

\* Mutant: any socket that is not CLOSED counts as connected.
haveConnection_NotClosed == readyState # "CLOSED"

\* haveConnection() (lines 42-44)
haveConnection == readyState = "OPEN"

\* ws.onmessage (lines 101-106): e.data goes to JSON.parse unless it is an
\* ArrayBuffer and a decoder is present.
JsonParseCalled(m) == ~(m.isArrayBuffer /\ converter # 0)

\* The motion events a pointer callback sent, folded into the history of the
\* wire: a DOWN leaves the pointer pressed for the peer, an UP released.
RECURSIVE WireAfter(_, _)
WireAfter(pressed, cs) ==
    IF cs = <<>> THEN pressed
    ELSE LET c == Head(cs)
             next ==
               IF c.obj # "ws" \/ c.op # "send" THEN pressed
               ELSE IF c.arg[2].action = MotionEvent_ACTION_DOWN THEN TRUE
               ELSE IF c.arg[2].action = MotionEvent_ACTION_UP THEN FALSE
               ELSE pressed
         IN  WireAfter(next, Tail(cs))

\* What every callback does besides its own assignments: it makes the calls
\* cs on its collaborators and ends, by an exception if thr.
Ran(op, arg, cs, thr) ==
    /\ last' = [op |-> op, arg |-> arg]
    /\ calls' = cs
    /\ thrown' = (thr \/ SendThrows(readyState, cs))
    /\ decoders' = DecodersAfter(decoders, cs)
    /\ readyState' = ReadyStateAfter(readyState, cs)
    /\ jsonParsed' = (op = "ws.onmessage" /\ JsonParseCalled(arg[1]))
    /\ wirePressed' = IF op \in {"mousedown", "mouseup", "mousemove"}
                      THEN WireAfter(wirePressed, cs) ELSE wirePressed
    /\ stopped' = (stopped \/ op = "stop")
    /\ UNCHANGED <<geomIn, geomOut>>

\* Mutant: the listener is reached only once the socket is CLOSED.
OnErrorCalls_OnlyWhenClosed(ev) ==
    IF readyState = "CLOSED"
    THEN (IF errorListener # 0
          THEN <<Call("listener", 0, "OnError", <<errorListener, ev>>)>> ELSE <<>>)
         \o <<Call("console", 0, "error", <<"WS closed">>)>>
    ELSE <<>>

\* onError (lines 87-94)
OnErrorCalls(ev) ==
    (IF errorListener # 0
     THEN <<Call("listener", 0, "OnError", <<errorListener, ev>>)>> ELSE <<>>)
    \o (IF readyState = "CLOSED"
        THEN <<Call("console", 0, "error", <<"WS closed">>)>> ELSE <<>>)

\* ws.onerror
WsError ==
    /\ Ran("ws.onerror", <<"ws error">>, OnErrorCalls("ws error"), FALSE)
    /\ UNCHANGED <<streamInfo, converter, errorListener, down>>

\* tag.onerror
TagError ==
    /\ Ran("tag.onerror", <<"tag error">>, OnErrorCalls("tag error"), FALSE)
    /\ UNCHANGED <<streamInfo, converter, errorListener, down>>

\* The socket opens: no callback is registered for it.
WsOpen ==
    /\ readyState = "CONNECTING"
    /\ readyState' = "OPEN"
    /\ last' = [op |-> "ws.open", arg |-> <<>>]
    /\ calls' = <<>>
    /\ thrown' = FALSE
    /\ jsonParsed' = FALSE
    /\ UNCHANGED <<streamInfo, converter, decoders, errorListener, down,
                   wirePressed, stopped, geomIn, geomOut>>

\* The socket closes (the peer, a failure, or the end of the closing
\* handshake): no callback is registered for it.
WsClosed ==
    /\ readyState # "CLOSED"
    /\ readyState' = "CLOSED"
    /\ last' = [op |-> "ws.close", arg |-> <<>>]
    /\ calls' = <<>>
    /\ thrown' = FALSE
    /\ jsonParsed' = FALSE
    /\ UNCHANGED <<streamInfo, converter, decoders, errorListener, down,
                   wirePressed, stopped, geomIn, geomOut>>

\* Mutant: the new decoder is constructed and started before the old one is
\* flushed and paused.
StreamInfoCalls_StartFirst(newInfo) ==
    LET fresh == Len(decoders) + 1
    IN  <<Call("converter", fresh, "new", <<newInfo.frameRate, DEFAULT_FPF>>),
          Call("converter", fresh, "play", <<>>)>>
        \o (IF converter # 0 /\ streamInfo # <<>>
               /\ ~StreamInfoEquals(streamInfo[1], newInfo)
            THEN <<Call("converter", converter, "appendRawData", <<"empty">>),
                   Call("converter", converter, "pause", <<>>)>>
            ELSE <<>>)

\* case MESSAGE_TYPE_STREAM_INFO (lines 113-120): the calls on the decoders
StreamInfoCalls(newInfo) ==
    LET fresh == Len(decoders) + 1
    IN  (IF converter # 0 /\ streamInfo # <<>>
            /\ ~StreamInfoEquals(streamInfo[1], newInfo)
         THEN <<Call("converter", converter, "appendRawData", <<"empty">>),
                Call("converter", converter, "pause", <<>>)>>
         ELSE <<>>)
        \o <<Call("converter", fresh, "new", <<newInfo.frameRate, DEFAULT_FPF>>),
             Call("converter", fresh, "play", <<>>)>>

\* Mutant: every parsed object is handled as stream metadata.
MessageBranch_AnyObject(m) ==
    IF m.isArrayBuffer /\ converter # 0 THEN "feed"
    ELSE IF ~m.parses THEN "malformed"
    ELSE IF m.value = <<>> THEN "TypeError"
    ELSE "stream_info"

\* The branch ws.onmessage takes for e.data
MessageBranch(m) ==
    IF m.isArrayBuffer /\ converter # 0 THEN "feed"
    ELSE IF ~m.parses THEN "malformed"
    ELSE IF m.value = <<>> THEN "TypeError"
    ELSE IF m.value[1].type = MESSAGE_TYPE_STREAM_INFO THEN "stream_info"
    ELSE IF m.value[1].type = MESSAGE_TYPE_TEXT THEN "text"
    ELSE "default"

\* Mutant: binary payloads go to the decoder the callback saw first.
OnMessageCalls_FirstDecoder(m) ==
    LET b == MessageBranch(m)
    IN  CASE b = "feed" -> <<Call("converter", 1, "appendRawData", <<"data">>)>>
          [] b = "malformed" -> <<Call("console", 0, "log", <<"undefined">>)>>
          [] b = "TypeError" -> <<>>
          [] b = "stream_info" -> StreamInfoCalls(StreamInfo(m.value[1]))
          [] b = "text" -> <<Call("console", 0, "log", <<"message">>)>>
          [] OTHER -> <<Call("console", 0, "log", <<"data">>)>>

\* ws.onmessage (lines 98-129)
OnMessageCalls(m) ==
    LET b == MessageBranch(m)
    IN  CASE b = "feed" ->
               <<Call("converter", converter, "appendRawData", <<"data">>)>>
          [] b = "malformed" -> <<Call("console", 0, "log", <<"undefined">>)>>
          [] b = "TypeError" -> <<>>
          [] b = "stream_info" -> StreamInfoCalls(StreamInfo(m.value[1]))
          [] b = "text" -> <<Call("console", 0, "log", <<"message">>)>>
          [] OTHER -> <<Call("console", 0, "log", <<"data">>)>>

OnMessage(m) ==
    /\ readyState \in {"OPEN", "CLOSING"}
    /\ MessageBranch(m) = "stream_info" => Len(decoders) < MaxDecoders
    /\ Ran("ws.onmessage", <<m>>, OnMessageCalls(m), MessageBranch(m) = "TypeError")
    /\ IF MessageBranch(m) = "stream_info"
       THEN /\ streamInfo' = <<StreamInfo(m.value[1])>>
            /\ converter' = Len(decoders) + 1
       ELSE UNCHANGED <<streamInfo, converter>>
    /\ UNCHANGED <<errorListener, down>>

\* Mutant: with no StreamInfo the event is built against the tag's own size.
OnMouseEventCalls_TagSize(e) ==
    IF e.target.el = "tag" /\ haveConnection
    THEN LET info == IF streamInfo = <<>>
                     THEN <<[width |-> e.target.clientWidth,
                             height |-> e.target.clientHeight, frameRate |-> 30]>>
                     ELSE streamInfo
             event == BuildMotionEvent(e, info)
         IN  (IF event # <<>>
              THEN <<Call("ws", 0, "send", ToBuffer(event[1]))>> ELSE <<>>)
             \o <<Call("event", 0, "preventDefault", <<>>),
                  Call("event", 0, "stopPropagation", <<>>)>>
    ELSE <<>>

\* onMouseEvent (lines 139-153)
OnMouseEventCalls(e) ==
    IF e.target.el = "tag" /\ haveConnection
    THEN IF streamInfo = <<>>
         THEN <<>>
         ELSE LET event == BuildMotionEvent(e, streamInfo)
              IN  (IF event # <<>>
                   THEN <<Call("ws", 0, "send", ToBuffer(event[1]))>> ELSE <<>>)
                  \o <<Call("event", 0, "preventDefault", <<>>),
                       Call("event", 0, "stopPropagation", <<>>)>>
    ELSE <<>>

\* document.body.onmousedown
MouseDown(e) ==
    /\ down < MaxDown
    /\ down' = down + 1
    /\ Ran("mousedown", <<e>>, OnMouseEventCalls(e), FALSE)
    /\ UNCHANGED <<streamInfo, converter, errorListener>>

\* document.body.onmouseup
MouseUp(e) ==
    /\ down > -MaxDown
    /\ down' = down - 1
    /\ Ran("mouseup", <<e>>, OnMouseEventCalls(e), FALSE)
    /\ UNCHANGED <<streamInfo, converter, errorListener>>

\* Mutant: a move is handled whatever the drag counter is.
MouseMove_Always(e) ==
    /\ Ran("mousemove", <<e>>, OnMouseEventCalls(e), FALSE)
    /\ UNCHANGED <<streamInfo, converter, errorListener, down>>

\* document.body.onmousemove
MouseMove(e) ==
    /\ Ran("mousemove", <<e>>, IF down > 0 THEN OnMouseEventCalls(e) ELSE <<>>, FALSE)
    /\ UNCHANGED <<streamInfo, converter, errorListener, down>>

\* setStreamInfo(info)
SetStreamInfo(info) ==
    /\ streamInfo' = <<info>>
    /\ Ran("setStreamInfo", <<info>>, <<>>, FALSE)
    /\ UNCHANGED <<converter, errorListener, down>>

\* sendEvent(event)
SendEventCalls(event) ==
    IF haveConnection THEN <<Call("ws", 0, "send", ToBuffer(event))>> ELSE <<>>

SendEvent(event) ==
    /\ Ran("sendEvent", <<event>>, SendEventCalls(event), FALSE)
    /\ UNCHANGED <<streamInfo, converter, errorListener, down>>

\* setErrorListener(listener)
SetErrorListener(listener) ==
    /\ errorListener' = listener
    /\ Ran("setErrorListener", <<listener>>, <<>>, FALSE)
    /\ UNCHANGED <<streamInfo, converter, down>>

\* Mutant: the socket is closed whatever its state.
StopCalls_AlwaysClose ==
    <<Call("ws", 0, "close", <<>>)>>
    \o (IF converter # 0 THEN <<Call("converter", converter, "pause", <<>>)>> ELSE <<>>)

\* stop()
StopCalls ==
    (IF haveConnection THEN <<Call("ws", 0, "close", <<>>)>> ELSE <<>>)
    \o (IF converter # 0 THEN <<Call("converter", converter, "pause", <<>>)>> ELSE <<>>)

Stop ==
    /\ Ran("stop", <<>>, StopCalls, FALSE)
    /\ UNCHANGED <<streamInfo, converter, errorListener, down>>

Next ==
    \/ WsOpen
    \/ WsClosed
    \/ WsError
    \/ TagError
    \/ \E m \in Messages : OnMessage(m)
    \/ \E e \in MouseEvents("mousedown") : MouseDown(e)
    \/ \E e \in MouseEvents("mouseup") : MouseUp(e)
    \/ \E e \in MouseEvents("mousemove") : MouseMove(e)
    \/ \E i \in SessionInfos : SetStreamInfo(i)
    \/ \E ev \in ControlEvents : SendEvent(ev)
    \/ \E l \in Listeners : SetErrorListener(l)
    \/ Stop

Spec == Init /\ [][Next]_vars

-----------------------------------------------------------------------------
(* buildMotionEvent applied to bounded inputs *)

GeomDims == 1..MaxDim

\* The viewport element of the given size, placed like the tag.
Viewport(cw, ch) ==
    [el |-> "tag", offsetLeft |-> TagElement.offsetLeft,
     offsetTop |-> TagElement.offsetTop, clientWidth |-> cw, clientHeight |-> ch]

\* A pointer event at viewport-local (px, py)
PointerAt(type, px, py, cw, ch) ==
    [type |-> type, button |-> 0, target |-> Viewport(cw, ch),
     clientX |-> px + TagElement.offsetLeft, clientY |-> py + TagElement.offsetTop]

GeomInfo(w, h) == [width |-> w, height |-> h, frameRate |-> 30]

\* Section 8, example 8 of the specification
ExampleInside == [e |-> PointerAt("mousedown", 200, 150, 400, 300),
                  info |-> <<GeomInfo(1920, 1080)>>]

ExamplePadding == [e |-> PointerAt("mousedown", 200, 10, 400, 300),
                   info |-> <<GeomInfo(1920, 1080)>>]

\* Every viewport and stream size within the bound, every integer pointer
\* from one pixel outside the viewport to one pixel outside, every kind of
\* pointer event; a few inputs with no StreamInfo; the two examples.
GeomInputs ==
    { [e |-> PointerAt(t, px, py, cw, ch), info |-> <<GeomInfo(w, h)>>] :
        t \in {"mousedown", "mousemove", "mouseup"},
        cw \in GeomDims, ch \in GeomDims, w \in GeomDims, h \in GeomDims,
        px \in -1..(MaxDim + 1), py \in -1..(MaxDim + 1) }
    \cup { [e |-> PointerAt(t, 1, 1, cw, ch), info |-> <<>>] :
        t \in {"mousedown", "mousemove", "mouseup"}, cw \in GeomDims, ch \in GeomDims }
    \cup { ExampleInside, ExamplePadding }

InitGeom ==
    /\ readyState = "CONNECTING"
    /\ streamInfo = <<>>
    /\ converter = 0
    /\ decoders = <<>>
    /\ errorListener = 0
    /\ down = 0
    /\ last = [op |-> "constructor", arg |-> <<>>]
    /\ calls = <<>>
    /\ thrown = FALSE
    /\ jsonParsed = FALSE
    /\ wirePressed = FALSE
    /\ stopped = FALSE
    /\ geomIn \in { <<i>> : i \in GeomInputs }
    /\ geomOut = [done |-> FALSE, result |-> <<>>]

GeomApply ==
    /\ ~geomOut.done
    /\ geomOut' = [done |-> TRUE,
                   result |-> BuildMotionEvent(geomIn[1].e, geomIn[1].info)]
    /\ UNCHANGED <<sessionVars, geomIn>>

NextGeom == GeomApply

GeomSpec == InitGeom /\ [][NextGeom]_vars

-----------------------------------------------------------------------------
(* Reference geometry for the claims, in integer arithmetic *)

\* The harness input, unpacked: viewport-local pointer, viewport, stream.
InPx == geomIn[1].e.clientX - geomIn[1].e.target.offsetLeft
InPy == geomIn[1].e.clientY - geomIn[1].e.target.offsetTop
InCw == geomIn[1].e.target.clientWidth
InCh == geomIn[1].e.target.clientHeight
InW == geomIn[1].info[1].width
InH == geomIn[1].info[1].height

Applied == geomOut.done /\ geomIn[1].info # <<>>

Rejected == geomOut.result = <<>>

OutX == geomOut.result[1].position.point.x
OutY == geomOut.result[1].position.point.y

InViewport == InPx >= 0 /\ InPx <= InCw /\ InPy >= 0 /\ InPy <= InCh

\* The aspect ratios rounded to 1e-5, as whole numbers
Rounded5(a, b) == (200000 * a + b) \div (2 * b)

CeilDiv(a, b) == (a + b - 1) \div b

\* Viewport cw x ch, stream w x h: the stream is relatively wider (narrower)
Wider(cw, ch, w, h) == Rounded5(w, h) > Rounded5(cw, ch)
Narrower(cw, ch, w, h) == Rounded5(w, h) < Rounded5(cw, ch)

\* realHeight = ceil(viewportWidth / ratio), realWidth = ceil(viewportHeight * ratio)
RealHeight(cw, w, h) == CeilDiv(cw * h, w)
RealWidth(ch, w, h) == CeilDiv(ch * w, h)

\* The content rectangle the mapping computes holds the pointer (px, py)
ContentRect(px, py, cw, ch, w, h) ==
    /\ px >= 0 /\ px <= cw /\ py >= 0 /\ py <= ch
    /\ Wider(cw, ch, w, h) =>
          /\ 2 * py >= ch - RealHeight(cw, w, h)
          /\ 2 * py <= ch + RealHeight(cw, w, h)
    /\ Narrower(cw, ch, w, h) =>
          /\ 2 * px >= cw - RealWidth(ch, w, h)
          /\ 2 * px <= cw + RealWidth(ch, w, h)

RefWider == Wider(InCw, InCh, InW, InH)
RefNarrower == Narrower(InCw, InCh, InW, InH)
RefRealHeight == RealHeight(InCw, InW, InH)
RefRealWidth == RealWidth(InCh, InW, InH)

\* The image scaled to fit the viewport with its aspect ratio kept, centred:
\* it is InCw wide and InCw * InH / InW high when the stream is relatively
\* wider, InCh high and InCh * InW / InH wide when it is relatively narrower.
\* The pointer is strictly in the padding above or below (left or right of) it.
InIdealPadding ==
    \/ /\ InW * InCh > InCw * InH
       /\ \/ 2 * InPy * InW < InCh * InW - InCw * InH
          \/ 2 * InPy * InW > InCh * InW + InCw * InH
    \/ /\ InW * InCh < InCw * InH
       /\ \/ 2 * InPx * InH < InCw * InH - InCh * InW
          \/ 2 * InPx * InH > InCw * InH + InCh * InW

\* The same with the image's padded side rounded up to a whole pixel, the
\* aspect ratios compared after rounding to 1e-5.
InRoundedPadding ==
    \/ /\ RefWider
       /\ \/ 2 * InPy < InCh - RefRealHeight
          \/ 2 * InPy > InCh + RefRealHeight
    \/ /\ RefNarrower
       /\ \/ 2 * InPx < InCw - RefRealWidth
          \/ 2 * InPx > InCw + RefRealWidth

InContentRect == ContentRect(InPx, InPy, InCw, InCh, InW, InH)

\* r = a / b for a rational r and integers a, b
RatIs(r, a, b) == r.n * b = a * r.d

-----------------------------------------------------------------------------
(* Claims about buildMotionEvent, checked under GeomSpec *)

\* C8 as stated: a pointer inside the viewport and strictly within the
\* letterbox padding of the aspect-preserving, centred fit is rejected.
C8_IdealPaddingRejected ==
    Applied /\ InViewport /\ InIdealPadding => Rejected

\* C8 amended: when the aspect ratios differ after rounding to 1e-5, a pointer
\* inside the viewport and strictly outside the content rectangle whose padded
\* side is rounded up to a whole pixel (realHeight = ceil(viewportWidth /
\* ratio), realWidth = ceil(viewportHeight * ratio)), centred, is rejected.
C8_RoundedPaddingRejected ==
    Applied /\ InViewport /\ InRoundedPadding => Rejected

C8_Witness ==
    Applied /\ InViewport /\ InRoundedPadding /\ Rejected /\ InPy > 0 /\ InW > InH

\* C9: a non-rejected pointer maps to x = adjustedX * streamWidth /
\* effectiveViewportWidth, y = adjustedY * streamHeight / effectiveViewportHeight,
\* the adjustment removing the padding computed from realHeight (realWidth),
\* none when the aspect ratios are equal after rounding to 1e-5; 400x300 with
\* 1920x1080 maps (200,150) to (960,540) and rejects (200,10).
C9_ReferenceMapping ==
    /\ Applied /\ ~Rejected /\ RefWider =>
          /\ RatIs(OutX, InPx * InW, InCw)
          /\ RatIs(OutY, (2 * InPy - (InCh - RefRealHeight)) * InH, 2 * RefRealHeight)
    /\ Applied /\ ~Rejected /\ RefNarrower =>
          /\ RatIs(OutX, (2 * InPx - (InCw - RefRealWidth)) * InW, 2 * RefRealWidth)
          /\ RatIs(OutY, InPy * InH, InCh)
    /\ Applied /\ ~RefWider /\ ~RefNarrower =>
          /\ ~Rejected
          /\ RatIs(OutX, InPx * InW, InCw)
          /\ RatIs(OutY, InPy * InH, InCh)
    /\ geomOut.done /\ geomIn[1] = ExampleInside =>
          /\ ~Rejected
          /\ OutX = Num(960)
          /\ OutY = Num(540)
    /\ geomOut.done /\ geomIn[1] = ExamplePadding => Rejected

C9_Witness ==
    /\ geomOut.done /\ geomIn[1] = ExampleInside
    /\ geomOut.result[1].position = Position(Point(Num(960), Num(540)), Size(1920, 1080))

\* C10: a pointer inside the computed content rectangle is not rejected and
\* its device point lies within the stream: 0 <= x <= width, 0 <= y <= height.
C10_DevicePointInStream ==
    Applied /\ InContentRect =>
        /\ ~Rejected
        /\ RLe(Num(0), OutX) /\ RLe(OutX, Num(InW))
        /\ RLe(Num(0), OutY) /\ RLe(OutY, Num(InH))

C10_Witness ==
    /\ Applied /\ InContentRect /\ RefWider /\ ~Rejected
    /\ 2 * InPy = InCh + RefRealHeight
    /\ OutY = Num(InH)

-----------------------------------------------------------------------------
(* Claims about the session, checked under Spec *)

Sends(cs) == { i \in 1..Len(cs) : cs[i].obj = "ws" /\ cs[i].op = "send" }

ListenerCalls(cs) == { i \in 1..Len(cs) : cs[i].obj = "listener" }

ConverterCalls(cs) == { i \in 1..Len(cs) : cs[i].obj = "converter" }

IsCall(c, obj, id, op) == c.obj = obj /\ c.id = id /\ c.op = op

PointerOps == {"mousedown", "mouseup", "mousemove"}

\* The step is ws.onmessage handling a stream-metadata message.
StreamInfoStep ==
    /\ last'.op = "ws.onmessage"
    /\ ~last'.arg[1].isArrayBuffer
    /\ last'.arg[1].parses
    /\ last'.arg[1].value # <<>>
    /\ last'.arg[1].value[1].type = MESSAGE_TYPE_STREAM_INFO

\* The StreamInfo that message carries
ArrivedInfo ==
    LET v == last'.arg[1].value[1]
    IN  [width |-> v.width, height |-> v.height, frameRate |-> v.frameRate]

\* The pointer of e is over the video content of the tag showing info.
OverContent(e, info) ==
    /\ e.target.el = "tag"
    /\ ContentRect(e.clientX - e.target.offsetLeft, e.clientY - e.target.offsetTop,
                   e.target.clientWidth, e.target.clientHeight,
                   info.width, info.height)

\* C1: in every reachable state a current decoder is present if and only if a
\* current StreamInfo is present.
C1_DecoderIffStreamInfo == (converter # 0) <=> (streamInfo # <<>>)

\* C2: a stream-metadata message whose StreamInfo equals the current one, with
\* a decoder present, makes no call on any decoder and leaves the decoder
\* instance the same.
C2_EqualInfoIsNoOp ==
    [][StreamInfoStep /\ converter # 0 /\ streamInfo = <<ArrivedInfo>>
         => converter' = converter /\ ConverterCalls(calls') = {}]_vars

\* C3: a stream-metadata message whose StreamInfo differs from the current one
\* while a decoder exists feeds the old decoder an empty payload, then pauses
\* it, and only then constructs the new decoder (with the new frame rate and
\* the fixed frames-per-flush) and starts it.
C3_FlushStopBeforeStart ==
    [][StreamInfoStep /\ converter # 0 /\ streamInfo # <<ArrivedInfo>>
         => /\ Len(calls') = 4
            /\ converter' # converter
            /\ IsCall(calls'[1], "converter", converter, "appendRawData")
            /\ calls'[1].arg = <<"empty">>
            /\ IsCall(calls'[2], "converter", converter, "pause")
            /\ IsCall(calls'[3], "converter", converter', "new")
            /\ calls'[3].arg = <<ArrivedInfo.frameRate, DEFAULT_FPF>>
            /\ IsCall(calls'[4], "converter", converter', "play")
            /\ ~decoders'[converter].playing
            /\ decoders'[converter'].playing]_vars

C3_Witness ==
    /\ last.op = "ws.onmessage"
    /\ Len(calls) = 4
    /\ converter = 2
    /\ IsCall(calls[1], "converter", 1, "appendRawData")
    /\ IsCall(calls[2], "converter", 1, "pause")
    /\ IsCall(calls[4], "converter", 2, "play")

\* C4: the drag counter is never negative.
C4_DownNeverNegative == down >= 0

\* C5 as stated: a send happens only while the socket is OPEN; sendEvent and
\* the pointer callbacks, run while it is not OPEN, send nothing, raise no
\* error and leave the session state unchanged.
C5_NoSendOutsideOpen_StateUnchanged ==
    [][/\ Sends(calls') # {} => readyState = "OPEN"
       /\ readyState # "OPEN" /\ last'.op \in PointerOps \cup {"sendEvent"}
            => /\ Sends(calls') = {}
               /\ ~thrown'
               /\ UNCHANGED <<readyState, streamInfo, converter, decoders,
                              errorListener, down>>]_vars

\* C5 amended: a send happens only while the socket is OPEN; sendEvent and the
\* pointer callbacks, run while it is not OPEN, send nothing, raise no error
\* and leave the channel state, the StreamInfo, the decoders and the error
\* listener unchanged (a press or a release still updates the drag counter).
C5_NoSendOutsideOpen ==
    [][/\ Sends(calls') # {} => readyState = "OPEN"
       /\ readyState # "OPEN" /\ last'.op \in PointerOps \cup {"sendEvent"}
            => /\ Sends(calls') = {}
               /\ ~thrown'
               /\ UNCHANGED <<readyState, streamInfo, converter, decoders,
                              errorListener>>]_vars

C5_Witness ==
    /\ readyState = "CLOSING"
    /\ streamInfo # <<>>
    /\ last.op = "mousedown"
    /\ OverContent(last.arg[1], streamInfo[1])
    /\ calls = <<>>
    /\ ~thrown

\* C6: while no StreamInfo is current, no pointer event builds a motion event,
\* sends on the wire, reaches the error listener or raises an error.
C6_NoSendWithoutStreamInfo ==
    [][streamInfo = <<>> /\ last'.op \in PointerOps
         => /\ Sends(calls') = {}
            /\ ListenerCalls(calls') = {}
            /\ ~thrown'
            /\ BuildMotionEvent(last'.arg[1], streamInfo) = <<>>]_vars

C6_Witness ==
    /\ streamInfo = <<>>
    /\ readyState = "OPEN"
    /\ last.op = "mousedown"
    /\ last.arg[1].target.el = "tag"
    /\ calls = <<>>

\* C7: with the socket OPEN, a StreamInfo current and the pointer over the
\* video content, a move handled with the drag counter at 0 sends nothing and
\* the same move handled with the counter at 1 or more sends exactly once.
C7_DragMoveSuppression ==
    [][(/\ last'.op = "mousemove"
        /\ readyState = "OPEN"
        /\ streamInfo # <<>>
        /\ OverContent(last'.arg[1], streamInfo[1]))
         => /\ down = 0 => Sends(calls') = {}
            /\ down >= 1 => Cardinality(Sends(calls')) = 1]_vars

C7_Witness ==
    /\ last.op = "mousemove"
    /\ readyState = "OPEN"
    /\ down >= 1
    /\ streamInfo # <<>>
    /\ OverContent(last.arg[1], streamInfo[1])
    /\ Cardinality(Sends(calls)) = 1

-----------------------------------------------------------------------------
(* Further claims about the session, checked under Spec *)

Closes(cs) == { i \in 1..Len(cs) : cs[i].obj = "ws" /\ cs[i].op = "close" }

Feeds(cs) == { i \in 1..Len(cs) : cs[i].obj = "converter" /\ cs[i].op = "appendRawData" }

Playing == { i \in 1..Len(decoders) : decoders[i].playing }

SessionState == <<readyState, streamInfo, converter, decoders, errorListener, down>>

\* C11: a binary payload is never passed to the structured (JSON) decoder,
\* in any session state.
C11_BinaryBypassesJson ==
    last.op = "ws.onmessage" /\ last.arg[1].isArrayBuffer => ~jsonParsed

\* C12: a binary payload that arrives while a decoder is current is fed,
\* verbatim and only, to the decoder constructed last, the one of the most
\* recent stream-metadata message; no superseded decoder is fed data.
C12_FeedCurrentDecoder ==
    /\ last.op = "ws.onmessage" /\ last.arg[1].isArrayBuffer /\ converter # 0
         => /\ Len(calls) = 1
            /\ IsCall(calls[1], "converter", converter, "appendRawData")
            /\ calls[1].arg = <<"data">>
    /\ \A i \in Feeds(calls) : calls[i].arg = <<"data">> => calls[i].id = Len(decoders)
    /\ converter # 0 => converter = Len(decoders)

C12_Witness ==
    /\ last.op = "ws.onmessage"
    /\ last.arg[1].isArrayBuffer
    /\ converter = 2
    /\ IsCall(calls[1], "converter", 2, "appendRawData")

\* C13: stop() raises no error, closes the socket if and only if it is OPEN
\* and pauses the decoder if and only if one is present; a second stop()
\* right after the first closes nothing and leaves the session state as the
\* first left it.
C13_StopIdempotent ==
    [][last'.op = "stop"
         => (/\ ~thrown'
             /\ (Closes(calls') # {}) <=> (readyState = "OPEN")
             /\ readyState' = IF readyState = "OPEN" THEN "CLOSING" ELSE readyState
             /\ (\E i \in 1..Len(calls') : IsCall(calls'[i], "converter", converter, "pause"))
                  <=> (converter # 0)
             /\ converter # 0 => ~decoders'[converter].playing
             /\ UNCHANGED <<streamInfo, converter, errorListener, down>>
             /\ last.op = "stop" => Closes(calls') = {} /\ UNCHANGED SessionState)]_vars

C13_Witness ==
    /\ last.op = "stop"
    /\ readyState = "CLOSING"
    /\ converter # 0
    /\ Len(calls) = 1
    /\ IsCall(calls[1], "converter", converter, "pause")

\* C14: handling an inbound message never ends by an uncaught error.
C14_NoUncaughtError == last.op = "ws.onmessage" => ~thrown

\* C15: a channel error event or a rendering-surface error event invokes the
\* registered error listener exactly once with that event and changes nothing
\* else of the session; with no listener registered it is dropped, no error
\* raised.
C15_ErrorReachesListenerOnce ==
    [][last'.op \in {"ws.onerror", "tag.onerror"}
         => (/\ ~thrown'
             /\ errorListener # 0 =>
                  /\ Cardinality(ListenerCalls(calls')) = 1
                  /\ \A i \in ListenerCalls(calls') :
                        calls'[i].arg = <<errorListener, last'.arg[1]>>
             /\ errorListener = 0 => ListenerCalls(calls') = {}
             /\ UNCHANGED SessionState)]_vars

C15_Witness ==
    /\ last.op = "tag.onerror"
    /\ errorListener # 0
    /\ readyState = "OPEN"
    /\ Len(calls) = 1
    /\ calls[1].obj = "listener"
    /\ calls[1].arg = <<errorListener, "tag error">>

\* The step is ws.onmessage handling text that is malformed, or an object
\* whose type is no stream metadata (plain text, unrecognised).
InertMessageStep ==
    /\ last'.op = "ws.onmessage"
    /\ ~last'.arg[1].isArrayBuffer
    /\ \/ ~last'.arg[1].parses
       \/ /\ last'.arg[1].value # <<>>
          /\ last'.arg[1].value[1].type # MESSAGE_TYPE_STREAM_INFO

\* C16: a plain-text message, a message of unrecognised type and a malformed
\* message leave the StreamInfo, the decoder, its playing state and the drag
\* counter as they were and feed nothing to a decoder.
C16_InertMessages ==
    [][InertMessageStep
         => (/\ UNCHANGED SessionState
             /\ ConverterCalls(calls') = {}
             /\ ~thrown')]_vars

C16_Witness ==
    /\ last.op = "ws.onmessage"
    /\ ~last.arg[1].isArrayBuffer
    /\ last.arg[1].parses
    /\ last.arg[1].value # <<>>
    /\ last.arg[1].value[1].type = MESSAGE_TYPE_TEXT
    /\ converter # 0
    /\ decoders[converter].playing
    /\ ConverterCalls(calls) = {}

\* C17: at most one decoder constructed by the session is playing.
C17_AtMostOnePlaying == Cardinality(Playing) <= 1

\* C18: a MOVE motion event is sent only after a sent DOWN with no sent UP
\* since.
C18_MoveAfterDown ==
    last.op = "mousemove" /\ Sends(calls) # {} => wirePressed

\* C19: every motion event sent carries a button code of the button table;
\* a pointer event with a raw button outside the table sends nothing.
C19_DefinedButton ==
    last.op \in PointerOps =>
        \A i \in Sends(calls) :
            /\ calls[i].arg[2].buttons # <<>>
            /\ calls[i].arg[2].buttons[1] \in {17, MotionEvent_BUTTON_TERTIARY, 26}

\* C20: once stop() has been called no decoder of the session is playing and
\* no payload is fed to a decoder.
C20_QuietAfterStop ==
    stopped => /\ Playing = {}
               /\ last.op = "ws.onmessage" => Feeds(calls) = {}

====
